---- MODULE Spec2Model ----
(***************************************************************************)
(* The script-message bridge of wry's Linux backend: the closure that      *)
(* src/webview/linux.rs connects to "script-message-received", the RPC     *)
(* wrapper that src/application/gtkrs.rs installs around the user's RPC    *)
(* handler, and the control channel to the main loop that the wrapper      *)
(* sends to.                                                               *)
(***************************************************************************)
EXTENDS Integers, Sequences, FiniteSets, TLC

(* ------------------------------ bounds -------------------------------- *)

\* Script messages delivered to the webview in one behaviour.
MaxMsgs == 2

\* Control messages sent through the application proxy.
MaxSends == 3

(* --------------------------- JSON values ------------------------------ *)

\* Option::None.
None == [t |-> "none"]

\* serde_json::Value::Null.
Null == [t |-> "null"]

\* A serde_json Number for which is_i64() holds.  The 64-bit two's
\* complement value is hi * 2^32 + (lo mod 2^32): hi is the signed upper
\* word, lo the lower word read as a signed 32-bit integer.
JInt(hi, lo) == [t |-> "int", hi |-> hi, lo |-> lo]

\* A Number above i64::MAX (held as u64): is_i64() is false.
JU64 == [t |-> "u64"]

\* A Number with a fractional part, n + 0.5: is_i64() is false.
JF64(n) == [t |-> "f64", n |-> n]

JStr(s) == [t |-> "str", s |-> s]

JBool(b) == [t |-> "bool", b |-> b]

\* An object with the single field "message".
JObj(m) == [t |-> "obj", message |-> m]

JArr(a) == [t |-> "arr", a |-> a]

\* i32::MIN, the low word of 2^31.
I32Min == -2147483647 - 1

\* The i64 whose value is the i32 n (sign extension).
I64OfI32(n) == JInt(IF n < 0 THEN -1 ELSE 0, n)

\* Value::as_f64: Some for every Number, None otherwise.
AsF64(v) == IF v.t \in {"int", "u64", "f64"} THEN v ELSE None

\* Value's Index<usize>: the element, or Null when v is no array or i is
\* out of bounds.
Index(v, i) ==
  IF v.t = "arr" /\ i + 1 <= Len(v.a) THEN v.a[i + 1] ELSE Null

(* ----------------------------- constants ------------------------------ *)

RPC_CALLBACK_NAME == "__rpc__"

BEGIN_WINDOW_DRAG == "__WRY_BEGIN_WINDOW_DRAG__"

\* window.get_id() of the window this webview lives in.
window_id == 1

\* The id of another window of the application.
other_window_id == 2

(* ------------------------------ state --------------------------------- *)

VARIABLES
  rpc_handler,       \* linux.rs: the Option<RpcHandler> given to new: "none" | "wrapper"
  user_rpc_handler,  \* gtkrs.rs: the Option<WindowRpcHandler> the wrapper captured
  CALLBACKS,         \* the keys (window_id, name) of the process-wide registry
  poisoned,          \* the registry mutex is poisoned
  alive,             \* the process has not been aborted
  chan,              \* messages in the main loop's control channel
  rxClosed,          \* the channel's receiver has been dropped
  received,          \* script messages delivered to the closure so far
  hist,              \* what the last two dispatches did, oldest first
  lock,              \* the thread holding the registry mutex, or "free"
  pc,                \* where each thread is in its use of the registry
  cur,               \* the dispatch the UI thread is in the middle of
  webviews,          \* gtkrs.rs: the table of live webviews
  phase,             \* the application: "built" | "running" | "exited" | "dropped"
  created,           \* windows the GTK application has created so far
  open,              \* ids of the windows created and not yet deleted
  sendResults,       \* what each send_message was given and returned
  recvd,             \* the messages process_messages has received, in order
  applied,           \* the window messages applied, and to which window
  addWindow          \* the add_window requests processed: reply and result

\* The registry seen one step of a thread at a time.
lockVars == <<lock, pc, cur>>

\* The application and its main loop.
appVars ==
  <<webviews, phase, created, open, sendResults, recvd, applied, addWindow>>

vars == <<rpc_handler, user_rpc_handler, CALLBACKS, poisoned, alive, chan,
          rxClosed, received, hist, lockVars, appVars>>

(* ------------------------------ decode -------------------------------- *)

\* serde's Option<Value>: a missing field and a JSON null both give None.
OptField(v) == IF v = Null THEN None ELSE v

\* serde_json::from_str::<FuncCall>: the text must be JSON and carry the
\* callback name and, in the payload, the method, both strings.
Decode(js) ==
  IF js.json
  THEN IF js.callback.t = "str" /\ js.method.t = "str"
       THEN [ok |-> TRUE,
             ev |-> [callback |-> js.callback.s,
                     payload  |-> [id     |-> OptField(js.id),
                                   method |-> js.method.s,
                                   params |-> OptField(js.params)]]]
       ELSE [ok |-> FALSE]
  ELSE [ok |-> FALSE]

(* ------------------------- linux.rs: the closure ---------------------- *)

\* ExtractId with -1 as the fallback for an id that is no i64 number.
ExtractId_FallbackMinusOne(id) ==
  IF id # None
  THEN IF id.t = "int" THEN id.lo ELSE -1
  ELSE -1

\* ExtractId with an integer outside the i32 range clamped to the nearest
\* bound instead of wrapped.
ExtractId_Saturating(id) ==
  IF id # None
  THEN IF id.t \in {"int", "u64", "f64"}
       THEN IF id.t = "int"
            THEN IF id = I64OfI32(id.lo) THEN id.lo
                 ELSE IF id.hi >= 0 THEN 2147483647 ELSE I32Min
            ELSE 0
       ELSE 0
  ELSE 0

\* ExtractId with the id of the envelope never read.
ExtractId_AlwaysZero(id) == 0

\* let id: i32 = ...: the low 32 bits of an i64 number, 0 otherwise.
ExtractId(id) ==
  IF id # None
  THEN IF id.t \in {"int", "u64", "f64"}
       THEN IF id.t = "int" THEN id.lo ELSE 0
       ELSE 0
  ELSE 0

\* UseRpc without the test for an installed handler.
UseRpc_NameOnly(ev) == ev.callback = RPC_CALLBACK_NAME

UseRpc(ev) == rpc_handler # "none" /\ ev.callback = RPC_CALLBACK_NAME

\* NormalizeParams without the test for an array.
NormalizeParams_AlwaysWraps(params) ==
  <<IF params # None THEN params ELSE Null>>

\* raw_params / params: an array is taken as it is, anything else is
\* wrapped; absent params become Value::Null first.
NormalizeParams(params) ==
  LET raw_params == IF params # None THEN params ELSE Null
  IN  IF raw_params.t = "arr" THEN raw_params.a ELSE <<raw_params>>

\* CallbackReplyScript with the slot of a resolved call left in place.
CallbackReplyScript_SuccessNotCleared(id, status) ==
  IF status.ok
  THEN << [op |-> "resolve", slot |-> id, arg |-> <<"RPC call success">>] >>
  ELSE << [op |-> "reject", slot |-> id,
           arg |-> <<"RPC call fail with error ", status.e>>],
          [op |-> "clear", slot |-> id] >>

\* CallbackReplyScript with a failure answered like a success.
CallbackReplyScript_FailureResolves(id, status) ==
  << [op |-> "resolve", slot |-> id, arg |-> <<"RPC call success">>],
     [op |-> "clear", slot |-> id] >>

\* The script of the callback route, statement by statement.  The reject
\* message is the format string's literal followed by the error's Display.
CallbackReplyScript(id, status) ==
  IF status.ok
  THEN << [op |-> "resolve", slot |-> id, arg |-> <<"RPC call success">>],
          [op |-> "clear", slot |-> id] >>
  ELSE << [op |-> "reject", slot |-> id,
           arg |-> <<"RPC call fail with error ", status.e>>],
          [op |-> "clear", slot |-> id] >>

\* RpcReplyScript with a failed encoding answered by the bare
\* acknowledgement of the last branch.
RpcReplyScript_EncodeFailureAcks(response, encOk) ==
  IF ~encOk
  THEN << [op |-> "rpc_result", id |-> response.id, payload |-> Null] >>
  ELSE IF response.error # None
       THEN << [op |-> "rpc_error", id |-> response.id, payload |-> response.error] >>
       ELSE IF response.result # None
            THEN << [op |-> "rpc_result", id |-> response.id,
                     payload |-> response.result] >>
            ELSE << [op |-> "rpc_result", id |-> response.id, payload |-> Null] >>

\* RpcReplyScript with both routines called for a response that has an
\* error and a result.
RpcReplyScript_BothRoutines(response, encOk) ==
  IF response.error # None
  THEN << [op |-> "rpc_error", id |-> response.id,
           payload |-> IF encOk THEN response.error ELSE Null] >>
       \o (IF response.result # None
           THEN << [op |-> "rpc_result", id |-> response.id,
                    payload |-> response.result] >>
           ELSE <<>>)
  ELSE IF response.result # None
       THEN << [op |-> "rpc_result", id |-> response.id,
                payload |-> IF encOk THEN response.result ELSE Null] >>
       ELSE << [op |-> "rpc_result", id |-> response.id, payload |-> Null] >>

\* RpcReplyScript with the result looked at before the error.
RpcReplyScript_ResultFirst(response, encOk) ==
  IF response.result # None
  THEN << [op |-> "rpc_result", id |-> response.id,
           payload |-> IF encOk THEN response.result ELSE Null] >>
  ELSE IF response.error # None
       THEN << [op |-> "rpc_error", id |-> response.id,
                payload |-> IF encOk THEN response.error ELSE Null] >>
       ELSE << [op |-> "rpc_result", id |-> response.id, payload |-> Null] >>

\* The script of the RPC route for a response that carries an id.  encOk
\* is the outcome of serde_json::to_string on the payload.
RpcReplyScript(response, encOk) ==
  IF response.error # None
  THEN << [op |-> "rpc_error", id |-> response.id,
           payload |-> IF encOk THEN response.error ELSE Null] >>
  ELSE IF response.result # None
       THEN << [op |-> "rpc_result", id |-> response.id,
                payload |-> IF encOk THEN response.result ELSE Null] >>
       ELSE << [op |-> "rpc_result", id |-> response.id, payload |-> Null] >>

\* What one dispatch did: the scripts it injected, the user code it called,
\* its steps in order, the messages it sent to the main loop, the lines it
\* logged, and whether it panicked ("none", "unlocked": outside the
\* registry lock, "locked": while holding it).
Effect(scripts, calls, events, sent, logs, panic) ==
  [scripts |-> scripts, calls |-> calls, events |-> events, sent |-> sent,
   logs |-> logs, panic |-> panic]

\* DecodeErrorArm with a reject sent to the fallback slot 0.
DecodeErrorArm_Replies(js) ==
  Effect(<< << [op |-> "reject", slot |-> 0, arg |-> <<"Bad Javascript function call">>],
              [op |-> "clear", slot |-> 0] >> >>,
         <<>>, <<"log", "inject">>, <<>>, <<"Bad Javascript function call">>, "none")

\* Err(e) => eprintln!(...)
DecodeErrorArm(js) ==
  Effect(<<>>, <<>>, <<"log">>, <<>>, <<"Bad Javascript function call">>, "none")

(* ------------------- gtkrs.rs: channel and RPC wrapper ---------------- *)

\* InnerApplicationProxy::send_message: try_send on the unbounded channel
\* fails only when the receiver is gone.
SendMessage(message) ==
  IF rxClosed
  THEN [ok |-> FALSE, sent |-> <<>>]
  ELSE [ok |-> TRUE, sent |-> <<message>>]

\* The drag branch of the closure given to set_rpc_handler: "pass" when
\* the request is no drag request or has no params, "return_none" when one
\* of the two `?` leaves the closure, "begin_drag" otherwise.
WrapperDrag(request) ==
  IF request.method = BEGIN_WINDOW_DRAG
  THEN IF request.params # None
       THEN IF AsF64(Index(request.params, 0)) = None
            THEN "return_none"
            ELSE IF AsF64(Index(request.params, 1)) = None
                 THEN "return_none"
                 ELSE "begin_drag"
       ELSE "pass"
  ELSE "pass"

\* Whether the closure goes on to the user's handler after the drag branch.
WrapperCallsUser(request) ==
  /\ WrapperDrag(request) # "return_none"
  /\ user_rpc_handler

BeginDragMessage(request) ==
  [kind |-> "Window", id |-> window_id, msg |-> "BeginDrag",
   x |-> AsF64(Index(request.params, 0)),
   y |-> AsF64(Index(request.params, 1))]

(* ------------------------ linux.rs: the two routes -------------------- *)

\* RpcReply without the test for the response's id.
RpcReply_AnswersWithoutId(response, encOk) ==
  IF response # None THEN <<RpcReplyScript(response, encOk)>> ELSE <<>>

\* RpcReply with a response that has neither result nor error left
\* unanswered.
RpcReply_SkipsEmpty(response, encOk) ==
  IF response # None
  THEN IF response.id # None /\ (response.error # None \/ response.result # None)
       THEN <<RpcReplyScript(response, encOk)>>
       ELSE <<>>
  ELSE <<>>

\* if let Some(mut response) = response.take() { if let Some(id) = response.id {..} }
RpcReply(response, encOk) ==
  IF response # None
  THEN IF response.id # None
       THEN <<RpcReplyScript(response, encOk)>>
       ELSE <<>>
  ELSE <<>>

\* The RPC route: the wrapper runs its drag branch, then the user's handler
\* (which answers resp), then the closure of linux.rs injects the reply.
RpcArm(ev, resp, encOk) ==
  LET request == ev.payload
      drag    == WrapperDrag(request)
      send    == SendMessage(BeginDragMessage(request))
  IN  IF drag = "return_none"
      THEN Effect(<<>>, <<>>, <<"rpc_handler">>, <<>>, <<>>, "none")
      ELSE IF drag = "begin_drag" /\ ~send.ok
      THEN Effect(<<>>, <<>>, <<"rpc_handler", "begin_drag">>, <<>>, <<>>,
                  "unlocked")
      ELSE
        LET sent     == IF drag = "begin_drag" THEN send.sent ELSE <<>>
            called   == WrapperCallsUser(request)
            response == IF called THEN resp ELSE None
            calls    == IF called
                        THEN <<[kind |-> "rpc", request |-> request,
                                response |-> resp, encoded |-> encOk]>>
                        ELSE <<>>
            scripts  == RpcReply(response, encOk)
        IN  Effect(scripts, calls,
                   <<"rpc_handler">>
                     \o (IF drag = "begin_drag" THEN <<"begin_drag">> ELSE <<>>)
                     \o (IF called THEN <<"user_handler">> ELSE <<>>)
                     \o (IF scripts # <<>> THEN <<"inject">> ELSE <<>>),
                   sent, <<>>, "none")

\* The registry route: lock().unwrap(), get_mut(..).unwrap(), the call and
\* the reply, all under the lock.
CallbackArm(ev, id, status) ==
  IF poisoned
  THEN Effect(<<>>, <<>>, <<"lock_failed">>, <<>>, <<>>, "unlocked")
  ELSE IF <<window_id, ev.callback>> \notin CALLBACKS
  THEN Effect(<<>>, <<>>, <<"lock", "lookup">>, <<>>, <<>>, "locked")
  ELSE Effect(<<CallbackReplyScript(id, status)>>,
              <<[kind |-> "callback", key |-> <<window_id, ev.callback>>,
                 id |-> id, params |-> NormalizeParams(ev.payload.params),
                 status |-> status]>>,
              <<"lock", "lookup", "invoke", "inject", "unlock">>,
              <<>>, <<>>, "none")

(* ------------------------------ inputs -------------------------------- *)

\* A script message as posted by the page: text that is no JSON, or a JSON
\* object with its fields (None: the field is missing).
Msg(callback, method, id, params) ==
  [json |-> TRUE, callback |-> callback, method |-> method, id |-> id,
   params |-> params]

Garbage == [json |-> FALSE]

\* Ids a page can put in an envelope: absent, null, integers inside the
\* i32 range (7, -8), 2^32 + 7 and 2^31 outside it, a u64 above i64::MAX,
\* two fractions, a string, a boolean.
IdInputs ==
  { None, Null, JInt(0, 7), JInt(-1, -8), JInt(1, 7), JInt(0, I32Min),
    JU64, JF64(1), JF64(2), JStr("7"), JBool(TRUE) }

ParamInputs ==
  { None, JArr(<<>>), JArr(<<JStr("a"), JInt(0, 2)>>), JObj(JStr("WRY")),
    JStr("a"), JInt(0, 5), JBool(FALSE) }

DragParamInputs ==
  { None, JArr(<<JInt(0, 1), JF64(2)>>), JArr(<<JStr("a"), JInt(0, 1)>>),
    JArr(<<JInt(0, 1)>>), JObj(JStr("WRY")) }

Messages ==
  { Garbage,
    Msg(None, JStr("m"), JInt(0, 7), None),
    Msg(JStr("cb"), None, JInt(0, 7), None),
    Msg(JStr("cb"), JInt(0, 1), JInt(0, 7), None) }
  \cup { Msg(JStr("cb"), JStr("m"), id, None) : id \in IdInputs }
  \cup { Msg(JStr("cb"), JStr("m"), JInt(0, 7), params) : params \in ParamInputs }
  \cup { Msg(JStr("cb"), JStr(BEGIN_WINDOW_DRAG), JInt(0, 7),
             JArr(<<JInt(0, 1), JF64(2)>>)),
         Msg(JStr("cb2"), JStr("m"), JInt(0, 7), None) }
  \cup { Msg(JStr(RPC_CALLBACK_NAME), JStr("m"), id, None) :
           id \in {None, JInt(0, 7)} }
  \cup { Msg(JStr(RPC_CALLBACK_NAME), JStr(BEGIN_WINDOW_DRAG), JInt(0, 7), params) :
           params \in DragParamInputs }

\* What a registered callback can return: Ok(()) or Err(e).
Statuses == { [ok |-> TRUE], [ok |-> FALSE, e |-> "boom"] }

Response(id, result, error) == [id |-> id, result |-> result, error |-> error]

\* What the user's RPC handler can return for a request.
UserResponses(request) ==
  LET rid == IF request.id # None THEN request.id ELSE JInt(0, 1)
  IN  { None,
        Response(None, None, JStr("err")),
        Response(None, JStr("res"), None),
        Response(rid, None, None),
        Response(rid, JStr("res"), None),
        Response(rid, None, JStr("err")),
        Response(rid, JStr("res"), JStr("err")),
        Response(JStr("x"), JStr("res"), None) }

\* The outcomes of serde_json::to_string on the payload of a reply: only a
\* response with an id and a result or an error has a payload to encode.
EncodeOutcomes(resp) ==
  IF resp # None
  THEN IF resp.id # None /\ (resp.error # None \/ resp.result # None)
       THEN BOOLEAN ELSE {TRUE}
  ELSE {TRUE}

(* ------------------------------ actions ------------------------------- *)

\* The webviews dispatched to: built without an RPC handler (with and
\* without a callback registered under the RPC channel's name), or by
\* _create_webview, whose wrapper holds the user's handler or none.
Configurations ==
  LET registry == { <<window_id, "cb">>, <<other_window_id, "cb2">> }
  IN  { <<"none", FALSE, registry>>,
        <<"none", FALSE, registry \cup { <<window_id, RPC_CALLBACK_NAME>> }>>,
        <<"wrapper", FALSE, registry>>,
        <<"wrapper", TRUE, registry>> }

\* The threads that use the registry: the one that owns the loop and runs
\* the closure, and one other.
Threads == {"ui", "other"}

\* Nobody is using the registry.
RegistryAtRest ==
  /\ lock = "free"
  /\ pc = [t \in Threads |-> "idle"]
  /\ cur = None

\* The application is running with the one window; no control message has
\* been sent through a proxy.
OneWindowRunning ==
  /\ webviews = { [key |-> window_id, window |-> window_id] }
  /\ phase = "running"
  /\ created = 1
  /\ open = {window_id}
  /\ sendResults = <<>>
  /\ recvd = <<>>
  /\ applied = <<>>
  /\ addWindow = <<>>

Init ==
  /\ RegistryAtRest
  /\ OneWindowRunning
  /\ \E cfg \in Configurations :
       /\ rpc_handler = cfg[1]
       /\ user_rpc_handler = cfg[2]
       /\ CALLBACKS = cfg[3]
  /\ poisoned = FALSE
  /\ alive = TRUE
  /\ chan = <<>>
  /\ rxClosed = FALSE
  /\ received = 0
  /\ hist = <<>>

\* A panic inside the closure leaves it through the C frames of the signal
\* emission: the process is aborted there, or the unwinding goes on, which
\* drops a held MutexGuard and so poisons the registry.
PanicOutcomes == {"abort", "unwind"}

\* How a dispatch ends: the closure returns, or it panics.
Outcomes == {"returned"} \cup PanicOutcomes

\* The history with the record r of the newest dispatch.
Remember(h, r) == IF Len(h) < 2 THEN Append(h, r) ELSE <<h[2], r>>

\* The effect eff of dispatching js on the state.  The scripts the
\* dispatch handed to run_javascript and the lines it wrote to stderr are
\* kept in its record.
Apply(js, route, id, eff, how) ==
  /\ how \in (IF eff.panic = "none" THEN {"returned"} ELSE PanicOutcomes)
  /\ chan' = chan \o eff.sent
  /\ alive' = (how # "abort")
  /\ poisoned' = (poisoned \/ (eff.panic = "locked" /\ how = "unwind"))
  /\ received' = received + 1
  /\ hist' = Remember(hist,
       [js |-> js, route |-> route, id |-> id, scripts |-> eff.scripts,
        calls |-> eff.calls, events |-> eff.events, sent |-> eff.sent,
        logs |-> eff.logs, lockBefore |-> poisoned,
        outcome |-> how])
  /\ UNCHANGED <<appVars, rpc_handler, user_rpc_handler, CALLBACKS, rxClosed, lockVars>>

Delivered(js) ==
  /\ alive
  /\ received < MaxMsgs
  /\ js \in Messages

\* The message does not decode.
DispatchDecodeError(js) ==
  /\ Delivered(js)
  /\ ~Decode(js).ok
  /\ Apply(js, "decode_error", 0, DecodeErrorArm(js), "returned")

\* The message goes to the RPC handler.
DispatchRpc(js, encOk, how) ==
  /\ Delivered(js)
  /\ Decode(js).ok
  /\ LET ev == Decode(js).ev
     IN  /\ UseRpc(ev)
         /\ \E resp \in (IF WrapperCallsUser(ev.payload)
                          THEN UserResponses(ev.payload) ELSE {None}) :
               /\ encOk \in EncodeOutcomes(resp)
               /\ Apply(js, "rpc", ExtractId(ev.payload.id),
                        RpcArm(ev, resp, encOk), how)

\* The message goes to the callback registry.
DispatchCallback(js, status, how) ==
  /\ Delivered(js)
  /\ Decode(js).ok
  /\ LET ev == Decode(js).ev
         id == ExtractId(ev.payload.id)
     IN  /\ ~UseRpc(ev)
         /\ Apply(js, "callback", id, CallbackArm(ev, id, status), how)

\* The main loop is gone: the receiver of the control channel is dropped.
LoopShutdown ==
  /\ ~rxClosed
  /\ rxClosed' = TRUE
  /\ UNCHANGED <<appVars, rpc_handler, user_rpc_handler, CALLBACKS, poisoned, alive,
                 chan, received, hist, lockVars>>

Next ==
  \/ \E js \in Messages : DispatchDecodeError(js)
  \/ \E js \in Messages, encOk \in BOOLEAN, how \in Outcomes :
       DispatchRpc(js, encOk, how)
  \/ \E js \in Messages, status \in Statuses, how \in Outcomes :
       DispatchCallback(js, status, how)
  \/ LoopShutdown

Spec == Init /\ [][Next]_vars

(* ------------------- examples/rpc.rs: the RPC handler ----------------- *)

\* RpcResponse::new_result(id, result): a response without an error.
NewResult(id, result) == Response(id, result, None)

\* serde_json::from_value::<Vec<bool>>: an array of booleans.
IsVecBool(v) == v.t = "arr" /\ \A i \in DOMAIN v.a : v.a[i].t = "bool"

\* A value that deserializes as MessageParameters: an object whose field
\* message is a string or, as serde takes a struct from a sequence too, an
\* array of exactly that one string.
IsMessageParameters(v) ==
  \/ v.t = "obj" /\ v.message.t = "str"
  \/ v.t = "arr" /\ Len(v.a) = 1 /\ v.a[1].t = "str"

MessageOf(v) == IF v.t = "obj" THEN v.message.s ELSE v.a[1].s

\* serde_json::from_value::<Vec<MessageParameters>>.
IsVecMessageParameters(v) ==
  v.t = "arr" /\ \A i \in DOMAIN v.a : IsMessageParameters(v.a[i])

\* What the handler leaves of the request and what it returns.
Handled(req, response) == [request |-> req, response |-> response]

\* ExampleFullscreen with the answer given only when there is a flag.
ExampleFullscreen_AnswersOnlyWithFlag(req) ==
  IF req.params # None
  THEN IF IsVecBool(req.params) /\ Len(req.params.a) > 0
       THEN Handled([req EXCEPT !.params = None, !.id = None],
                    NewResult(req.id, None))
       ELSE Handled([req EXCEPT !.params = None], None)
  ELSE Handled(req, None)

\* The branch for "fullscreen": params.take(), and for an array of
\* booleans the acknowledgement with the id taken from the request.
ExampleFullscreen(req) ==
  IF req.params # None
  THEN IF IsVecBool(req.params)
       THEN Handled([req EXCEPT !.params = None, !.id = None],
                    NewResult(req.id, None))
       ELSE Handled([req EXCEPT !.params = None], None)
  ELSE Handled(req, None)

\* ExampleSendParameters greeting the last argument instead of the first.
ExampleSendParameters_GreetsLast(req) ==
  IF req.params # None
  THEN IF IsVecMessageParameters(req.params)
       THEN Handled([req EXCEPT !.params = None, !.id = None],
              NewResult(req.id,
                IF Len(req.params.a) > 0
                THEN JStr("Hello, " \o MessageOf(req.params.a[Len(req.params.a)]) \o "!")
                ELSE None))
       ELSE Handled([req EXCEPT !.params = None], None)
  ELSE Handled(req, None)

\* The branch for "send-parameters": params.take(), and for an array of
\* MessageParameters the greeting of the first one (no result for an
\* empty array) with the id taken from the request.
ExampleSendParameters(req) ==
  IF req.params # None
  THEN IF IsVecMessageParameters(req.params)
       THEN Handled([req EXCEPT !.params = None, !.id = None],
              NewResult(req.id,
                IF Len(req.params.a) > 0
                THEN JStr("Hello, " \o MessageOf(req.params.a[1]) \o "!")
                ELSE None))
       ELSE Handled([req EXCEPT !.params = None], None)
  ELSE Handled(req, None)

\* The closure given to add_window_with_configs.
ExampleRpcHandler(req) ==
  IF req.method = "fullscreen"
  THEN ExampleFullscreen(req)
  ELSE IF req.method = "send-parameters"
       THEN ExampleSendParameters(req)
       ELSE Handled(req, None)

ExampleIdInputs == { None, JInt(0, 7), JStr("x") }

FullscreenParamInputs ==
  { None, JBool(TRUE), JArr(<<>>), JArr(<<JBool(TRUE)>>),
    JArr(<<JBool(FALSE), JBool(TRUE)>>), JArr(<<JInt(0, 1)>>),
    JArr(<<JBool(TRUE), JStr("a")>>) }

SendParametersParamInputs ==
  { None, JObj(JStr("WRY")), JStr("WRY"), JArr(<<>>),
    JArr(<<JObj(JStr("WRY"))>>), JArr(<<JObj(JStr(""))>>),
    JArr(<<JObj(JStr("a")), JObj(JStr("b"))>>),
    JArr(<<JObj(JStr("WRY")), JInt(0, 5)>>),
    JArr(<<JObj(None)>>), JArr(<<JObj(JInt(0, 5))>>),
    JArr(<<JArr(<<JStr("WRY")>>)>>) }

\* The calls the page of the example can make, and some it does not make.
ExampleMessages ==
  { Msg(JStr(RPC_CALLBACK_NAME), JStr("fullscreen"), id, params) :
      id \in ExampleIdInputs, params \in FullscreenParamInputs }
  \cup { Msg(JStr(RPC_CALLBACK_NAME), JStr("send-parameters"), id, params) :
           id \in ExampleIdInputs, params \in SendParametersParamInputs }
  \cup { Msg(JStr(RPC_CALLBACK_NAME), JStr("m"), JInt(0, 7), JArr(<<JBool(TRUE)>>)) }

\* The window of the example: built by _create_webview around the
\* example's handler.
InitExample ==
  /\ RegistryAtRest
  /\ OneWindowRunning
  /\ rpc_handler = "wrapper"
  /\ user_rpc_handler = TRUE
  /\ CALLBACKS = {}
  /\ poisoned = FALSE
  /\ alive = TRUE
  /\ chan = <<>>
  /\ rxClosed = FALSE
  /\ received = 0
  /\ hist = <<>>

\* A message of the example's page goes through the wrapper to the
\* example's handler, and the reply is injected.
DispatchExample(js, encOk, how) ==
  /\ alive
  /\ received < MaxMsgs
  /\ js \in ExampleMessages
  /\ LET ev      == Decode(js).ev
         handled == ExampleRpcHandler(ev.payload)
         eff     == RpcArm(ev, handled.response, encOk)
     IN  /\ UseRpc(ev)
         /\ encOk \in EncodeOutcomes(handled.response)
         /\ Apply(js, "rpc", ExtractId(ev.payload.id),
                  [eff EXCEPT !.calls =
                     <<[kind |-> "rpc", request |-> ev.payload,
                        response |-> handled.response, encoded |-> encOk,
                        after |-> handled.request]>>],
                  how)

NextExample ==
  \/ \E js \in ExampleMessages, encOk \in BOOLEAN :
       DispatchExample(js, encOk, "returned")
  \/ LoopShutdown

SpecExample == InitExample /\ [][NextExample]_vars

(* --------------- the registry route, one step at a time --------------- *)

\* GuardLive with the guard dropped once the handler has been found.
GuardLive_DroppedBeforeInvoke(p) == p = "lookup"

\* The positions of the closure at which the MutexGuard `hashmap` is alive:
\* from its declaration to the end of the else block, the handler's call
\* and run_javascript included.
GuardLive(p) == p \in {"lookup", "invoke", "relock", "blocked", "inject", "drop"}

\* The holder of the mutex when the UI thread is at p.
LockAfter(p) ==
  IF GuardLive(p) THEN "ui" ELSE IF lock = "ui" THEN "free" ELSE lock

UiGoto(p) ==
  /\ pc' = [pc EXCEPT !["ui"] = p]
  /\ lock' = LockAfter(p)

Noted(e) == [cur EXCEPT !.events = Append(@, e)]

\* The record of the dispatch that is ending.
Ended(c, scripts, calls, how) ==
  [js |-> c.js, route |-> "callback", id |-> c.id, scripts |-> scripts,
   calls |-> calls, events |-> c.events, sent |-> <<>>, logs |-> <<>>,
   lockBefore |-> c.lockBefore, outcome |-> how, nth |-> c.nth]

\* A panic of the closure at the current position: the process is aborted,
\* or the unwinding drops the guard, if it is alive, and poisons the mutex.
UiPanics(c, how) ==
  /\ how \in PanicOutcomes
  /\ hist' = Remember(hist, Ended(c, <<>>, <<>>, how))
  /\ cur' = None
  /\ IF how = "abort"
     THEN /\ alive' = FALSE
          /\ UNCHANGED <<lock, pc, poisoned>>
     ELSE /\ alive' = TRUE
          /\ poisoned' = (poisoned \/ lock = "ui")
          /\ UiGoto("idle")

\* Messages for registered callbacks, registered from the start or later.
LockMessages ==
  { Msg(JStr(c), JStr("m"), id, JArr(<<JStr("a")>>)) :
      c \in {"cb", "late"}, id \in {None, JInt(0, 7)} }

\* ClosureIdle with the signal emitted again while the handler runs.
ClosureIdle_DuringHandler(p) == p \in {"idle", "invoke"}

\* The closure is a synchronous function run by the signal emission on the
\* UI thread: the signal is emitted for the next message only when the
\* thread is not inside the closure.
ClosureIdle(p) == p = "idle"

\* A message for the registry arrives at the closure.
UiReceive(js) ==
  /\ alive
  /\ received < MaxMsgs
  /\ ClosureIdle(pc["ui"])
  /\ js \in LockMessages
  /\ ~UseRpc(Decode(js).ev)
  /\ received' = received + 1
  /\ cur' = [js |-> js, id |-> ExtractId(Decode(js).ev.payload.id),
             events |-> <<>>, lockBefore |-> poisoned, status |-> None,
             nth |-> received + 1]
  /\ UiGoto("lock")
  /\ UNCHANGED <<appVars, rpc_handler, user_rpc_handler, CALLBACKS, poisoned, alive,
                 chan, rxClosed, hist>>

\* CALLBACKS.lock().unwrap(): waits for the mutex, and panics if it is
\* poisoned.
UiLock(how) ==
  /\ alive
  /\ pc["ui"] = "lock"
  /\ lock = "free"
  /\ IF poisoned
     THEN /\ UiPanics(Noted("lock_failed"), how)
          /\ UNCHANGED <<appVars, rpc_handler, user_rpc_handler, CALLBACKS, chan,
                         rxClosed, received>>
     ELSE /\ how = "returned"
          /\ cur' = Noted("lock")
          /\ UiGoto("lookup")
          /\ UNCHANGED <<appVars, rpc_handler, user_rpc_handler, CALLBACKS, poisoned,
                         alive, chan, rxClosed, received, hist>>

\* hashmap.get_mut(&(window_id, ev.callback)).unwrap().
UiLookup(how) ==
  /\ alive
  /\ pc["ui"] = "lookup"
  /\ IF <<window_id, Decode(cur.js).ev.callback>> \in CALLBACKS
     THEN /\ how = "returned"
          /\ cur' = Noted("lookup")
          /\ UiGoto("invoke")
          /\ UNCHANGED <<appVars, rpc_handler, user_rpc_handler, CALLBACKS, poisoned,
                         alive, chan, rxClosed, received, hist>>
     ELSE /\ UiPanics(Noted("lookup"), how)
          /\ UNCHANGED <<appVars, rpc_handler, user_rpc_handler, CALLBACKS, chan,
                         rxClosed, received>>

\* f(id, params) runs and returns its status.
UiHandlerReturns(status) ==
  /\ alive
  /\ pc["ui"] = "invoke"
  /\ status \in Statuses
  /\ cur' = [Noted("invoke") EXCEPT !.status = status]
  /\ UiGoto("inject")
  /\ UNCHANGED <<appVars, rpc_handler, user_rpc_handler, CALLBACKS, poisoned, alive,
                 chan, rxClosed, received, hist>>

\* f(id, params) runs and comes to a CALLBACKS.lock() of its own.
UiHandlerReenters ==
  /\ alive
  /\ pc["ui"] = "invoke"
  /\ cur' = Noted("relock")
  /\ UiGoto("relock")
  /\ UNCHANGED <<appVars, rpc_handler, user_rpc_handler, CALLBACKS, poisoned, alive,
                 chan, rxClosed, received, hist>>

\* The handler's lock(): on a free mutex it is taken, used and released,
\* and the handler goes on; on the mutex the thread itself holds the call
\* does not return, it blocks for ever or panics.
UiRelock(how) ==
  /\ alive
  /\ pc["ui"] = "relock"
  /\ \/ /\ lock = "free"
        /\ how = "returned"
        /\ UiGoto("invoke")
        /\ UNCHANGED <<appVars, rpc_handler, user_rpc_handler, CALLBACKS, poisoned,
                       alive, chan, rxClosed, received, hist, cur>>
     \/ /\ lock = "ui"
        /\ how = "returned"
        /\ UiGoto("blocked")
        /\ UNCHANGED <<appVars, rpc_handler, user_rpc_handler, CALLBACKS, poisoned,
                       alive, chan, rxClosed, received, hist, cur>>
     \/ /\ lock = "ui"
        /\ UiPanics(cur, how)
        /\ UNCHANGED <<appVars, rpc_handler, user_rpc_handler, CALLBACKS, chan,
                       rxClosed, received>>

\* The reply script is built from the status and given to run_javascript.
UiInject ==
  /\ alive
  /\ pc["ui"] = "inject"
  /\ cur' = Noted("inject")
  /\ hist' = Remember(hist,
       Ended(Noted("inject"), <<CallbackReplyScript(cur.id, cur.status)>>,
             <<[kind |-> "callback",
                key |-> <<window_id, Decode(cur.js).ev.callback>>,
                id |-> cur.id,
                params |-> NormalizeParams(Decode(cur.js).ev.payload.params),
                status |-> cur.status]>>,
             "returned"))
  /\ UiGoto("drop")
  /\ UNCHANGED <<appVars, rpc_handler, user_rpc_handler, CALLBACKS, poisoned, alive,
                 chan, rxClosed, received>>

\* The else block ends: the guard is dropped and the closure returns.
UiDrop ==
  /\ alive
  /\ pc["ui"] = "drop"
  /\ cur' = None
  /\ UiGoto("idle")
  /\ UNCHANGED <<appVars, rpc_handler, user_rpc_handler, CALLBACKS, poisoned, alive,
                 chan, rxClosed, received, hist>>

\* Keys another thread registers while the window is in use.
LateKeys == { <<window_id, "late">>, <<other_window_id, "cb3">> }

\* Another thread takes the registry's mutex, to register or to look up.
OtherLock ==
  /\ alive
  /\ pc["other"] = "idle"
  /\ lock = "free"
  /\ ~poisoned
  /\ lock' = "other"
  /\ pc' = [pc EXCEPT !["other"] = "critical"]
  /\ UNCHANGED <<appVars, rpc_handler, user_rpc_handler, CALLBACKS, poisoned, alive,
                 chan, rxClosed, received, hist, cur>>

\* It registers a callback under the mutex and releases it.
OtherRegister(key) ==
  /\ alive
  /\ pc["other"] = "critical"
  /\ key \in LateKeys \ CALLBACKS
  /\ CALLBACKS' = CALLBACKS \cup {key}
  /\ lock' = IF lock = "other" THEN "free" ELSE lock
  /\ pc' = [pc EXCEPT !["other"] = "idle"]
  /\ UNCHANGED <<appVars, rpc_handler, user_rpc_handler, poisoned, alive, chan,
                 rxClosed, received, hist, cur>>

\* It looks a callback up under the mutex and releases it.
OtherLookup ==
  /\ alive
  /\ pc["other"] = "critical"
  /\ lock' = IF lock = "other" THEN "free" ELSE lock
  /\ pc' = [pc EXCEPT !["other"] = "looked_up"]
  /\ UNCHANGED <<appVars, rpc_handler, user_rpc_handler, CALLBACKS, poisoned, alive,
                 chan, rxClosed, received, hist, cur>>

\* A window without RPC handler, with the callback "cb" registered.
InitLock ==
  /\ RegistryAtRest
  /\ OneWindowRunning
  /\ rpc_handler = "none"
  /\ user_rpc_handler = FALSE
  /\ CALLBACKS = { <<window_id, "cb">> }
  /\ poisoned = FALSE
  /\ alive = TRUE
  /\ chan = <<>>
  /\ rxClosed = FALSE
  /\ received = 0
  /\ hist = <<>>

NextLock ==
  \/ \E js \in LockMessages : UiReceive(js)
  \/ \E how \in Outcomes : UiLock(how)
  \/ \E how \in Outcomes : UiLookup(how)
  \/ \E status \in Statuses : UiHandlerReturns(status)
  \/ UiHandlerReenters
  \/ \E how \in Outcomes : UiRelock(how)
  \/ UiInject
  \/ UiDrop
  \/ OtherLock
  \/ \E key \in LateKeys : OtherRegister(key)
  \/ OtherLookup

SpecLock == InitLock /\ [][NextLock]_vars

(* ------------------- gtkrs.rs: the application loop ------------------- *)

\* The registry and the webview's bridge, which the loop does not touch.
bridgeVars ==
  <<rpc_handler, user_rpc_handler, CALLBACKS, poisoned, alive, received,
    hist, lockVars>>

\* Ids of the windows that messages are sent to: the first window and the
\* one created after it.
WindowIds == 1 .. 2

\* One window message stands for all of them: the arm of each applies it
\* to the window found under the id.
WindowMessages == {"SetTitle"}

\* The messages a proxy can send, before send_message numbers them.
AppMessages ==
  { [kind |-> "NewWindow"] }
  \cup { [kind |-> "Window", id |-> id, msg |-> m] :
           id \in WindowIds, m \in WindowMessages }

\* The message as the k-th message accepted by the channel.
Numbered(message, k) ==
  IF message.kind = "NewWindow"
  THEN [kind |-> "NewWindow", seq |-> k]
  ELSE [kind |-> "Window", id |-> message.id, msg |-> message.msg, seq |-> k]

\* The sends the channel accepted so far.
Accepted == SelectSeq(sendResults, LAMBDA r : r.ok)

\* Recv with the newest message taken first.
Recv_NewestFirst(q) ==
  [message |-> q[Len(q)], rest |-> SubSeq(q, 1, Len(q) - 1)]

\* event_loop_proxy_rx.recv().await on a channel that holds q: the oldest
\* message, and what stays in the channel.
Recv(q) == [message |-> Head(q), rest |-> Tail(q)]

\* GetMut falling back on some entry of the table for a missing key.
GetMut_FallsBackOnAnyEntry(table, id) ==
  IF \E e \in table : e.key = id
  THEN CHOOSE e \in table : e.key = id
  ELSE IF table # {} THEN CHOOSE e \in table : TRUE ELSE None

\* shared_webviews.borrow_mut().get_mut(&id): the entry under the key, if any.
GetMut(table, id) ==
  IF \E e \in table : e.key = id
  THEN CHOOSE e \in table : e.key = id
  ELSE None

\* webviews.insert(id, webview): the entry under the key is replaced.
Insert(table, id, webview) ==
  { e \in table : e.key # id } \cup { [key |-> id, window |-> webview] }

\* shared_webviews.borrow_mut().remove(&id).
Remove(table, id) == { e \in table : e.key # id }

\* How the NewWindow arm can go: _create_window fails, _create_webview
\* fails, or the webview is inserted.
NewWindowOutcomes == {"window_failed", "webview_failed", "inserted"}

\* NewWindowReply with the id sent after the webview has been built.
NewWindowReply_AfterWebview(outcome, id) ==
  IF outcome = "inserted"
  THEN [sent |-> TRUE, id |-> id]
  ELSE [sent |-> FALSE]

\* What the NewWindow arm does with the requester's sender: the id of the
\* window is sent once _create_window has returned Ok, before
\* _create_webview is called; otherwise the sender is dropped unused.
NewWindowReply(outcome, id) ==
  IF outcome = "window_failed"
  THEN [sent |-> FALSE]
  ELSE [sent |-> TRUE, id |-> id]

\* receiver.recv()? in add_window: the id that was sent, or the error of a
\* sender dropped without sending.
AddWindowResult(reply) ==
  IF reply.sent THEN [ok |-> TRUE, id |-> reply.id] ELSE [ok |-> FALSE]

\* InnerApplication::new, and create_webview called for no window or for
\* one before run.
InitApp ==
  /\ RegistryAtRest
  /\ rpc_handler = "none"
  /\ user_rpc_handler = FALSE
  /\ CALLBACKS = {}
  /\ poisoned = FALSE
  /\ alive = TRUE
  /\ received = 0
  /\ hist = <<>>
  /\ chan = <<>>
  /\ rxClosed = FALSE
  /\ phase = "built"
  /\ \E n \in 0 .. 1 :
       /\ created = n
       /\ webviews = { [key |-> i, window |-> i] : i \in 1 .. n }
       /\ open = 1 .. n
  /\ sendResults = <<>>
  /\ recvd = <<>>
  /\ applied = <<>>
  /\ addWindow = <<>>

\* A proxy sends a message, from any thread and at any time.
AppSend(message) ==
  /\ Len(sendResults) < MaxSends
  /\ message \in AppMessages
  /\ LET result == SendMessage(Numbered(message, Len(Accepted) + 1))
     IN  /\ chan' = chan \o result.sent
         /\ sendResults' = Append(sendResults,
              [message |-> message, ok |-> result.ok, closed |-> rxClosed,
               queued |-> Len(chan)])
  /\ UNCHANGED <<bridgeVars, rxClosed, webviews, phase, created, open, recvd,
                 applied, addWindow>>

\* InnerApplication::run: the delete handlers are connected,
\* process_messages is spawned, the loop starts.
AppRun ==
  /\ phase = "built"
  /\ phase' = "running"
  /\ UNCHANGED <<bridgeVars, chan, rxClosed, webviews, created, open,
                 sendResults, recvd, applied, addWindow>>

\* The application is dropped without run: its receiver goes with it.
AppDropped ==
  /\ phase = "built"
  /\ phase' = "dropped"
  /\ rxClosed' = TRUE
  /\ UNCHANGED <<bridgeVars, chan, webviews, created, open, sendResults,
                 recvd, applied, addWindow>>

\* One turn of the `while let` of process_messages, run by
\* gtk::main_iteration.
ProcessMessage(outcome) ==
  /\ phase = "running"
  /\ chan # <<>>
  /\ LET message == Recv(chan).message
     IN  /\ chan' = Recv(chan).rest
         /\ recvd' = Append(recvd, message)
         /\ IF message.kind = "NewWindow"
            THEN /\ outcome \in NewWindowOutcomes
                 /\ created' = IF outcome = "window_failed" THEN created
                               ELSE created + 1
                 /\ open' = IF outcome = "window_failed" THEN open
                            ELSE open \cup {created + 1}
                 /\ webviews' = IF outcome = "inserted"
                                THEN Insert(webviews, created + 1, created + 1)
                                ELSE webviews
                 /\ addWindow' = Append(addWindow,
                      [seq |-> message.seq, outcome |-> outcome,
                       reply |-> NewWindowReply(outcome, created + 1),
                       key |-> IF outcome = "inserted" THEN created + 1 ELSE 0,
                       result |-> None])
                 /\ UNCHANGED applied
            ELSE /\ outcome = "inserted"
                 /\ applied' =
                      IF GetMut(webviews, message.id) # None
                      THEN Append(applied,
                             [seq |-> message.seq, id |-> message.id,
                              msg |-> message.msg,
                              window |-> GetMut(webviews, message.id).window,
                              table |-> webviews])
                      ELSE applied
                 /\ UNCHANGED <<webviews, created, open, addWindow>>
  /\ UNCHANGED <<bridgeVars, rxClosed, phase, sendResults>>

\* The delete event of an open window, on the user's request or after
\* close(): the handler connected by run or by the NewWindow arm removes the
\* webview from the table, and the window is destroyed.  A window whose
\* webview was not built has no such handler and is only destroyed.
DeleteEvent(id) ==
  /\ phase = "running"
  /\ id \in open
  /\ open' = open \ {id}
  /\ webviews' = Remove(webviews, id)
  /\ UNCHANGED <<bridgeVars, chan, rxClosed, phase, created, sendResults,
                 recvd, applied, addWindow>>

\* add_window returns to its caller, on the caller's thread.
AddWindowReturns(i) ==
  /\ i \in DOMAIN addWindow
  /\ addWindow[i].result = None
  /\ addWindow' = [addWindow EXCEPT ![i].result = AddWindowResult(addWindow[i].reply)]
  /\ UNCHANGED <<bridgeVars, chan, rxClosed, webviews, phase, created, open,
                 sendResults, recvd, applied>>

\* The loop of run finds the table empty and breaks.
LoopBreak ==
  /\ phase = "running"
  /\ webviews = {}
  /\ phase' = "exited"
  /\ UNCHANGED <<bridgeVars, chan, rxClosed, webviews, created, open,
                 sendResults, recvd, applied, addWindow>>

NextApp ==
  \/ \E message \in AppMessages : AppSend(message)
  \/ AppRun
  \/ AppDropped
  \/ \E outcome \in NewWindowOutcomes : ProcessMessage(outcome)
  \/ \E id \in open : DeleteEvent(id)
  \/ LoopBreak

SpecApp == InitApp /\ [][NextApp]_vars

\* gtk::main_iteration polls the spawned process_messages whenever the
\* channel has woken it: while the loop runs, a pending message is received.
FairSpecApp ==
  SpecApp /\ WF_vars(\E outcome \in NewWindowOutcomes : ProcessMessage(outcome))

\* add_window: the NewWindow message is sent, and the caller waits for
\* the reply.
AddWindowSends == AppSend([kind |-> "NewWindow"])

\* The application used through add_window only, with the callers'
\* returns.
NextAddWindow ==
  \/ AddWindowSends
  \/ AppRun
  \/ AppDropped
  \/ \E outcome \in NewWindowOutcomes : ProcessMessage(outcome)
  \/ \E id \in open : DeleteEvent(id)
  \/ \E i \in DOMAIN addWindow : AddWindowReturns(i)
  \/ LoopBreak

SpecAddWindow == InitApp /\ [][NextAddWindow]_vars

(* --------------------------- reading the history ---------------------- *)

Records == { hist[i] : i \in DOMAIN hist }

\* The decoded envelope of a dispatch (of a message that decodes).
Envelope(r) == Decode(r.js).ev

EnvelopeId(r) == Envelope(r).payload.id

\* The dispatches that reached a registered callback.
CallbackCalls == { r \in Records : r.route = "callback" /\ r.calls # <<>> }

\* The dispatches that reached the user's RPC handler.
UserRpcCalls == { r \in Records : r.route = "rpc" /\ r.calls # <<>> }

IsNumber(v) == v.t \in {"int", "u64", "f64"}

\* v is an integer in the signed 32-bit range.
FitsI32(v) == v.t = "int" /\ v = I64OfI32(v.lo)

\* The slots a script touches.
Slots(script) == { script[i].slot : i \in DOMAIN script }

\* script settles slot with op and arg and then sets slot to undefined.
Settles(script, op, slot) ==
  /\ Len(script) = 2
  /\ script[1].op = op
  /\ script[1].slot = slot
  /\ script[2] = [op |-> "clear", slot |-> slot]

\* script is the acknowledgement of the call with id slot.
Acknowledges(script, slot) ==
  /\ Settles(script, "resolve", slot)
  /\ script[1].arg = <<"RPC call success">>

\* script rejects slot with a message that contains e.
RejectsWith(script, slot, e) ==
  /\ Settles(script, "reject", slot)
  /\ \E i \in DOMAIN script[1].arg : script[1].arg[i] = e

\* The slot is the one the page keeps the call's promise in: the id of the
\* envelope.
SlotOfEnvelope(r, slot) == EnvelopeId(r) = I64OfI32(slot)

(* ------------------------------- C1 ----------------------------------- *)

CallIdIs(r, slot) ==
  IF IsNumber(EnvelopeId(r)) THEN SlotOfEnvelope(r, slot) ELSE slot = 0

\* C2 as stated: every message whose registered callback fails with e gets
\* exactly one script, which rejects the slot of the call's id with a
\* message containing e and then clears that slot.
C2_AnyId ==
  \A r \in CallbackCalls :
    ~r.calls[1].status.ok
      => /\ Len(r.scripts) = 1
         /\ \E slot \in Slots(r.scripts[1]) :
              /\ RejectsWith(r.scripts[1], slot, r.calls[1].status.e)
              /\ CallIdIs(r, slot)

\* C2 (amended): the rejected and cleared slot is the call id handed to the
\* callback, which is the envelope's id when that is an integer in the
\* signed 32-bit range and 0 when the id is absent or no number.
C2_FailureRejectsOwnSlot ==
  \A r \in CallbackCalls :
    ~r.calls[1].status.ok
      => /\ Len(r.scripts) = 1
         /\ RejectsWith(r.scripts[1], r.calls[1].id, r.calls[1].status.e)
         /\ FitsI32(EnvelopeId(r)) => SlotOfEnvelope(r, r.calls[1].id)
         /\ ~IsNumber(EnvelopeId(r)) => r.calls[1].id = 0

C2_Witness ==
  \E r \in CallbackCalls :
    /\ EnvelopeId(r) = JInt(0, 7)
    /\ ~r.calls[1].status.ok
    /\ RejectsWith(r.scripts[1], 7, "boom")

(* ------------------------------- C3 ----------------------------------- *)

\* Two dispatches of calls to the same registered callback.
SameCallbackPairs ==
  { p \in CallbackCalls \X CallbackCalls :
      /\ p[1] # p[2]
      /\ Envelope(p[1]).callback = Envelope(p[2]).callback
      /\ EnvelopeId(p[1]) # None
      /\ EnvelopeId(p[2]) # None }

\* C3 as stated: two calls to the same callback with distinct ids never
\* touch each other's slot.
C3_AnyDistinctIds ==
  \A p \in SameCallbackPairs :
    EnvelopeId(p[1]) # EnvelopeId(p[2])
      => Slots(p[1].scripts[1]) \cap Slots(p[2].scripts[1]) = {}

\* C3 (amended): two calls to the same callback whose distinct ids are
\* integers in the signed 32-bit range each settle and clear the slot of
\* their own id and no other, in either arrival order.
C3_DistinctIdsOwnSlots ==
  \A p \in SameCallbackPairs :
    (/\ EnvelopeId(p[1]) # EnvelopeId(p[2])
     /\ FitsI32(EnvelopeId(p[1]))
     /\ FitsI32(EnvelopeId(p[2])))
      => /\ Slots(p[1].scripts[1]) \cap Slots(p[2].scripts[1]) = {}
         /\ \A i \in {1, 2} :
              \A slot \in Slots(p[i].scripts[1]) : SlotOfEnvelope(p[i], slot)

C3_Witness ==
  /\ Len(hist) = 2
  /\ hist[1] \in CallbackCalls
  /\ hist[2] \in CallbackCalls
  /\ EnvelopeId(hist[1]) = JInt(-1, -8)
  /\ EnvelopeId(hist[2]) = JInt(0, 7)
  /\ hist[1].calls[1].status.ok
  /\ ~hist[2].calls[1].status.ok

(* ------------------------------- C4 ----------------------------------- *)

\* The dispatches of a drag request on the RPC route.
DragRequests ==
  { r \in Records :
      r.route = "rpc" /\ Envelope(r).payload.method = BEGIN_WINDOW_DRAG }

\* C4: a request whose method is "__WRY_BEGIN_WINDOW_DRAG__" is never
\* passed to the user's RPC handler, whatever its params are.
C4_DragNeverReachesUser ==
  \A r \in DragRequests : r.calls = <<>>

(* ------------------------------- C5 ----------------------------------- *)

\* C5: handling a drag request never injects a reply script, whatever the
\* user's RPC handler would return for it.
C5_DragNeverReplies ==
  \A r \in DragRequests : r.scripts = <<>>

(* ------------------------------- C6 ----------------------------------- *)

\* The lock state and liveness a dispatch left behind: those the next
\* dispatch started from, or the current ones after the newest dispatch.
PoisonedAfter(i) ==
  IF i < Len(hist) THEN hist[i + 1].lockBefore ELSE poisoned

\* C6: a message that does not decode is dropped: no handler and no
\* callback is called, no script is injected, nothing is sent, the registry
\* lock is neither taken nor changed, the closure returns, and the bridge
\* stays alive for the messages that follow.
C6_DecodeErrorIsDropped ==
  \A i \in DOMAIN hist :
    ~Decode(hist[i].js).ok
      => /\ hist[i].route = "decode_error"
         /\ hist[i].calls = <<>>
         /\ hist[i].scripts = <<>>
         /\ hist[i].sent = <<>>
         /\ \A k \in DOMAIN hist[i].events :
              hist[i].events[k] \notin {"lock", "lock_failed"}
         /\ hist[i].logs # <<>>
         /\ hist[i].outcome = "returned"
         /\ PoisonedAfter(i) = hist[i].lockBefore
         /\ (i = Len(hist) => alive)

\* A message without a method is dropped, and the call that follows it is
\* dispatched and answered.
C6_Witness ==
  /\ Len(hist) = 2
  /\ hist[1].js.json
  /\ hist[1].js.method = None
  /\ hist[1].route = "decode_error"
  /\ hist[2] \in CallbackCalls
  /\ Len(hist[2].scripts) = 1

(* ------------------------------- C7 ----------------------------------- *)

\* The dispatches that looked up a name nobody registered for this window.
NotFoundLookups ==
  { i \in DOMAIN hist :
      /\ hist[i].route = "callback"
      /\ ~hist[i].lockBefore
      /\ <<window_id, Envelope(hist[i]).callback>> \notin CALLBACKS }

\* C7: a lookup that finds no callback fails for that message only: the
\* closure returns without a call or a reply, the process lives on and the
\* registry lock is left usable.
C7_NotFoundIsContained ==
  \A i \in NotFoundLookups :
    /\ hist[i].calls = <<>>
    /\ hist[i].scripts = <<>>
    /\ hist[i].outcome = "returned"
    /\ ~PoisonedAfter(i)
    /\ (i = Len(hist) => alive)

(* ------------------------------- C8 ----------------------------------- *)

\* script is the error routine for id with the payload.
RpcErrorReply(script, id, payload) ==
  script = << [op |-> "rpc_error", id |-> id, payload |-> payload] >>

\* C8, callbacks: a callback's Err(e) is answered by a reject that carries e.
CallbackFailuresAnswered ==
  \A r \in CallbackCalls :
    ~r.calls[1].status.ok
      => /\ Len(r.scripts) = 1
         /\ RejectsWith(r.scripts[1], r.calls[1].id, r.calls[1].status.e)

\* C8 as stated: every failure a callback or the RPC handler signals is
\* answered by a reply script, also when the RPC response carries no id.
C8_EveryFailureAnswered ==
  /\ CallbackFailuresAnswered
  /\ \A r \in UserRpcCalls :
       (r.calls[1].response # None /\ r.calls[1].response.error # None)
         => Len(r.scripts) = 1

\* C8 (amended): a callback's Err(e) is always answered; an RPC response
\* with an error is answered, through the error routine for the response's
\* id and with the encoded error (null when encoding it fails), exactly
\* when the response carries an id; without an id nothing is injected.
C8_FailureAnsweredWhenIdentified ==
  /\ CallbackFailuresAnswered
  /\ \A r \in UserRpcCalls :
       LET response == r.calls[1].response
       IN  (response # None /\ response.error # None)
             => IF response.id # None
                THEN /\ Len(r.scripts) = 1
                     /\ \E payload \in {response.error, Null} :
                          RpcErrorReply(r.scripts[1], response.id, payload)
                ELSE r.scripts = <<>>

\* An RPC response with an id and an error has been answered, and one with
\* an error and no id has been dropped.
C8_Witness ==
  /\ Len(hist) = 2
  /\ hist[1] \in UserRpcCalls
  /\ hist[1].calls[1].response = Response(JInt(0, 7), None, JStr("err"))
  /\ RpcErrorReply(hist[1].scripts[1], JInt(0, 7), JStr("err"))
  /\ hist[2] \in UserRpcCalls
  /\ hist[2].calls[1].response = Response(None, None, JStr("err"))
  /\ hist[2].scripts = <<>>

(* ------------------------------- C9 ----------------------------------- *)

\* C9: params that are present reach the callback normalized: the elements
\* of an array in their order, any other value as the only element.
C9_PresentParamsNormalized ==
  \A r \in CallbackCalls :
    LET params == r.js.params
    IN  /\ params.t = "arr" => r.calls[1].params = params.a
        /\ params.t \in {"obj", "str", "int", "u64", "f64", "bool"}
             => r.calls[1].params = <<params>>

\* An array of two elements has been passed on as it is, and then an
\* object as a sequence of one.
C9_Witness ==
  /\ Len(hist) = 2
  /\ hist[1] \in CallbackCalls
  /\ hist[1].js.params = JArr(<<JStr("a"), JInt(0, 2)>>)
  /\ hist[1].calls[1].params = <<JStr("a"), JInt(0, 2)>>
  /\ hist[2] \in CallbackCalls
  /\ hist[2].js.params = JObj(JStr("WRY"))
  /\ Len(hist[2].calls[1].params) = 1

(* ------------------------------- C10 ---------------------------------- *)

\* C10: an envelope without params has its callback called with an empty
\* parameter sequence.
C10_AbsentParamsGiveEmpty ==
  \A r \in CallbackCalls :
    Envelope(r).payload.params = None => r.calls[1].params = <<>>

(* ------------------------------- C11 ---------------------------------- *)

\* The dispatches on the RPC route whose handler returned.
RpcReturns == { r \in Records : r.route = "rpc" /\ r.outcome = "returned" }

\* What the handler given to the webview returned: the answer of the
\* user's handler, or None when the wrapper did not get to call one.
HandlerReturn(r) == IF r.calls # <<>> THEN r.calls[1].response ELSE None

\* C11: on the RPC route the handler's return value decides the number of
\* reply scripts: none for None, none for a response without an id, exactly
\* one for a response with an id, addressed to the id of the response.
C11_RepliesFollowReturnValue ==
  \A r \in RpcReturns :
    LET response == HandlerReturn(r)
    IN  IF response = None
        THEN r.scripts = <<>>
        ELSE IF response.id = None
             THEN r.scripts = <<>>
             ELSE /\ Len(r.scripts) = 1
                  /\ Len(r.scripts[1]) = 1
                  /\ r.scripts[1][1].id = response.id

\* A response without an id has been left unanswered and one whose id is
\* not the request's has been answered on its own id.
C11_Witness ==
  /\ Len(hist) = 2
  /\ hist[1] \in RpcReturns
  /\ HandlerReturn(hist[1]) = Response(None, JStr("res"), None)
  /\ hist[1].scripts = <<>>
  /\ hist[2] \in RpcReturns
  /\ EnvelopeId(hist[2]) = JInt(0, 7)
  /\ HandlerReturn(hist[2]) = Response(JStr("x"), JStr("res"), None)
  /\ hist[2].scripts[1][1].id = JStr("x")

(* ------------------------------- C12 ---------------------------------- *)

\* C12: a response with an id and neither result nor error is answered by
\* the success routine for that id with a null result.
C12_EmptyResponseIsAcknowledged ==
  \A r \in RpcReturns :
    LET response == HandlerReturn(r)
    IN  (/\ response # None
         /\ response.id # None
         /\ response.result = None
         /\ response.error = None)
          => r.scripts =
               << << [op |-> "rpc_result", id |-> response.id, payload |-> Null] >> >>

C12_Witness ==
  \E r \in RpcReturns :
    /\ HandlerReturn(r) = Response(JInt(0, 7), None, None)
    /\ Len(r.scripts) = 1
    /\ r.scripts[1][1].op = "rpc_result"

(* ------------------------------- C13 ---------------------------------- *)

\* The routine a response is answered through and the payload it carries.
RoutineOf(response) ==
  IF response.error # None THEN "rpc_error" ELSE "rpc_result"

PayloadOf(response) ==
  IF response.error # None THEN response.error ELSE response.result

\* The dispatches whose handler answered with an id and a payload.
PayloadReplies ==
  { r \in RpcReturns :
      /\ HandlerReturn(r) # None
      /\ HandlerReturn(r).id # None
      /\ PayloadOf(HandlerReturn(r)) # None }

\* C13: when encoding the payload fails the reply is still injected, for
\* the same id and through the routine of the payload's kind, with null for
\* the payload; when it succeeds the payload is the encoded value.
C13_EncodeFailureFallsBackToNull ==
  \A r \in PayloadReplies :
    LET response == HandlerReturn(r)
    IN  r.scripts =
          << << [op |-> RoutineOf(response), id |-> response.id,
                 payload |-> IF r.calls[1].encoded
                             THEN PayloadOf(response) ELSE Null] >> >>

\* An error whose encoding failed has been answered by the error routine
\* with null.
C13_Witness ==
  \E r \in PayloadReplies :
    /\ ~r.calls[1].encoded
    /\ HandlerReturn(r).error = JStr("err")
    /\ r.scripts =
         << << [op |-> "rpc_error", id |-> HandlerReturn(r).id, payload |-> Null] >> >>

(* ------------------------------- C14 ---------------------------------- *)

\* The dispatches whose wrapper asked for a drag and could not send the
\* request to the main loop.
FailedDragSends ==
  { r \in Records :
      /\ r.route = "rpc"
      /\ \E k \in DOMAIN r.events : r.events[k] = "begin_drag"
      /\ r.sent = <<>> }

\* C14: a control message that cannot be sent because the loop has shut
\* down gives its call site an error value; the dispatch in progress
\* returns and the process lives on.
C14_SendFailureIsSurfaced ==
  \A r \in FailedDragSends : r.outcome = "returned"

(* ------------------------------- C17 ---------------------------------- *)

\* C17: the call id handed to the callback and used in the reply is 0 when
\* the envelope's id is absent or no number, and is the envelope's id when
\* that is an integer in the signed 32-bit range.
C17_CallIdNarrowing ==
  \A r \in CallbackCalls :
    LET id == EnvelopeId(r)
    IN  /\ Slots(r.scripts[1]) = {r.calls[1].id}
        /\ (id = None \/ ~IsNumber(id)) => r.calls[1].id = 0
        /\ FitsI32(id) => I64OfI32(r.calls[1].id) = id

\* A string id has been answered on slot 0 and the id -8 on slot -8.
C17_Witness ==
  /\ Len(hist) = 2
  /\ hist[1] \in CallbackCalls
  /\ EnvelopeId(hist[1]) = JStr("7")
  /\ hist[1].calls[1].id = 0
  /\ hist[2] \in CallbackCalls
  /\ EnvelopeId(hist[2]) = JInt(-1, -8)
  /\ hist[2].calls[1].id = -8

(* ------------------------------- C18 ---------------------------------- *)

HasEvent(r, e) == \E k \in DOMAIN r.events : r.events[k] = e

\* C18: a decoded message goes to the RPC handler exactly when a handler
\* is installed and the callback name is the RPC channel's; otherwise the
\* registry is consulted.  No message gets both.
C18_ExactlyOneRoute ==
  \A r \in Records :
    Decode(r.js).ok
      => LET toRpc == HasEvent(r, "rpc_handler")
             toRegistry == HasEvent(r, "lock") \/ HasEvent(r, "lock_failed")
         IN  /\ toRpc <=> (rpc_handler # "none"
                            /\ Envelope(r).callback = RPC_CALLBACK_NAME)
             /\ toRegistry <=> ~toRpc
             /\ toRpc => \A k \in DOMAIN r.calls : r.calls[k].kind = "rpc"
             /\ toRegistry => \A k \in DOMAIN r.calls : r.calls[k].kind = "callback"

\* Without an installed handler a message for the RPC channel has been
\* looked up in the registry and its callback called.
C18_Witness ==
  \E r \in CallbackCalls :
    /\ rpc_handler = "none"
    /\ Envelope(r).callback = RPC_CALLBACK_NAME
    /\ ~HasEvent(r, "rpc_handler")

(* ------------------------------- C15 ---------------------------------- *)

\* The calls of the example's handler with the method.
ExampleCalls(method) ==
  { r \in UserRpcCalls : r.calls[1].request.method = method }

\* m is the message of the first element of params, an object.
FirstMessageIs(params, m) ==
  /\ params.t = "arr"
  /\ Len(params.a) > 0
  /\ params.a[1] = JObj(JStr(m))

Greetings == { "WRY", "", "a" }

C16_FullscreenAcknowledged ==
  \A r \in ExampleCalls("fullscreen") :
    LET params == r.calls[1].request.params
    IN  (params.t = "arr" /\ \A i \in DOMAIN params.a : params.a[i].t = "bool")
          => /\ r.calls[1].response = Response(r.calls[1].request.id, None, None)
             /\ r.sent = <<>>
             /\ chan = <<>>

\* The empty array has been acknowledged, and then [false, true].
C16_Witness ==
  /\ Len(hist) = 2
  /\ hist[1] \in ExampleCalls("fullscreen")
  /\ hist[1].calls[1].request.params = JArr(<<>>)
  /\ hist[1].calls[1].response = Response(JInt(0, 7), None, None)
  /\ hist[2] \in ExampleCalls("fullscreen")
  /\ hist[2].calls[1].request.params = JArr(<<JBool(FALSE), JBool(TRUE)>>)
  /\ hist[2].calls[1].response # None

(* ------------------------------- C19 ---------------------------------- *)

\* The UI thread is between the lookup and the end of the dispatch.
UiInDispatch == pc["ui"] \in {"lookup", "invoke", "relock", "blocked", "inject", "drop"}

\* The handler is running (or stuck in its own lock()).
HandlerRunning == pc["ui"] \in {"invoke", "relock", "blocked"}

\* C19: from the lookup to the end of the dispatch, handler and reply
\* injection included, the UI thread holds the registry's mutex; a handler
\* that comes to lock the registry again never returns (its dispatch never
\* gets to a status or a reply); and no other thread is inside the registry
\* while a handler runs.
C19_LockHeldThroughHandler ==
  /\ UiInDispatch => lock = "ui"
  /\ pc["ui"] \in {"lock", "idle"} => lock # "ui"
  /\ pc["other"] = "critical" => (lock = "other" /\ ~HandlerRunning)
  /\ (cur # None /\ HasEvent(cur, "relock")) => pc["ui"] \in {"relock", "blocked"}
  /\ \A r \in Records :
       HasEvent(r, "relock") => (r.scripts = <<>> /\ r.outcome # "returned")

\* A handler that locked the registry again is blocked for ever while the
\* other thread has a registration to make, and an earlier dispatch was
\* answered under the lock.
C19_Witness ==
  /\ pc["ui"] = "blocked"
  /\ lock = "ui"
  /\ pc["other"] = "idle"
  /\ LateKeys \ CALLBACKS # {}
  /\ \E r \in Records : HasEvent(r, "inject") /\ r.outcome = "returned"

(* ------------------------------- C20 ---------------------------------- *)

\* Every send made while the receiver lived was accepted, however many
\* messages were waiting.
NeverRejectedForCapacity ==
  \A i \in DOMAIN sendResults : sendResults[i].ok = ~sendResults[i].closed

\* What was received is, in order, the beginning of what was accepted.
ReceivedInSendOrder ==
  /\ Len(recvd) <= Len(Accepted)
  /\ \A i \in DOMAIN recvd :
       /\ recvd[i].seq = i
       /\ recvd[i].kind = Accepted[i].message.kind
       /\ recvd[i].kind = "Window" =>
            /\ recvd[i].id = Accepted[i].message.id
            /\ recvd[i].msg = Accepted[i].message.msg

\* A window message is applied to the window of its target id, which was in
\* the table then, and in the order of receipt.
AppliedToTarget ==
  /\ \A i \in DOMAIN applied :
       /\ applied[i].window = applied[i].id
       /\ \E e \in applied[i].table : e.key = applied[i].id
       /\ \E j \in DOMAIN recvd :
            /\ recvd[j].seq = applied[i].seq
            /\ recvd[j].kind = "Window"
            /\ recvd[j].id = applied[i].id
  /\ \A i, j \in DOMAIN applied : i < j => applied[i].seq < applied[j].seq

\* C20: a send is never rejected for capacity; the consumer receives the
\* messages in the order they were sent and applies a window message to the
\* window of its target id when that is in the table; and while the loop is
\* running the k-th message sent is eventually received.
C20_SentIsReceivedInOrder ==
  /\ [](NeverRejectedForCapacity /\ ReceivedInSendOrder /\ AppliedToTarget)
  /\ \A k \in 1 .. MaxSends :
       (Len(Accepted) >= k) ~> (Len(recvd) >= k \/ phase # "running")

\* Three messages were accepted while none had been received, all three
\* have been received, and the second window, created by the first of
\* them, got the third while the first window was in the table too.
C20_Witness ==
  /\ phase = "running"
  /\ Len(sendResults) = 3
  /\ sendResults[3].queued = 2
  /\ Len(recvd) = 3
  /\ recvd[1].kind = "NewWindow"
  /\ \E i \in DOMAIN applied :
       /\ applied[i].seq = 3
       /\ applied[i].window = 2
       /\ \E e \in applied[i].table : e.key = 1

(* ------------------------------- C21 ---------------------------------- *)

\* C21: run returns only when the table is found empty, and so only after
\* every window has been closed: once the loop has been left no window is
\* open.
C21_RunReturnsAfterEveryWindowClosed ==
  phase = "exited" => (webviews = {} /\ open = {})

(* ------------------------------- C22 ---------------------------------- *)

\* The consumer is about to receive a window message for an id that is not
\* in the table.
NextIsForMissingWindow ==
  /\ phase = "running"
  /\ chan # <<>>
  /\ Head(chan).kind = "Window"
  /\ \A e \in webviews : e.key # Head(chan).id

\* C22: a window message for an id that is not in the table is consumed
\* and nothing else happens: no window message is applied, the table and
\* the windows stay as they are, and the consumer goes on.
C22_MissingWindowIsNoOp ==
  [][(NextIsForMissingWindow /\ recvd' # recvd) =>
       /\ recvd' = Append(recvd, Head(chan))
       /\ chan' = Tail(chan)
       /\ applied' = applied
       /\ webviews' = webviews
       /\ open' = open
       /\ created' = created
       /\ phase' = "running"
       /\ alive']_vars

\* The first message, for window 2 which was never created, was consumed
\* without being applied while window 1 was in the table, and the message
\* sent after it was applied to window 1.
C22_Witness ==
  /\ Len(recvd) >= 2
  /\ recvd[1].kind = "Window"
  /\ recvd[1].id = 2
  /\ created = 1
  /\ \E e \in webviews : e.key = 1
  /\ \A i \in DOMAIN applied : applied[i].seq # 1
  /\ \E i \in DOMAIN applied : applied[i].seq = 2 /\ applied[i].window = 1

(* ------------------------------- C23 ---------------------------------- *)

\* C23: whatever the params of a "send-parameters" request, the example's
\* handler returns a response that carries the request's id.
C23_SendParametersAlwaysAnswered ==
  \A r \in ExampleCalls("send-parameters") :
    /\ r.calls[1].response # None
    /\ r.calls[1].response.id = r.calls[1].request.id

(* ------------------------------- C24 ---------------------------------- *)

\* The dispatches on the RPC route that injected a reply.
RpcReplies == { r \in Records : r.route = "rpc" /\ r.scripts # <<>> }

\* C24: a reply on the RPC route is one script that calls one routine, the
\* error routine or the result routine; for a response with an error and a
\* result it is the error routine, and the result is not in the reply.
C24_ExactlyOneRoutine ==
  \A r \in RpcReplies :
    /\ Len(r.scripts) = 1
    /\ Len(r.scripts[1]) = 1
    /\ r.scripts[1][1].op \in {"rpc_error", "rpc_result"}
    /\ (HandlerReturn(r).error # None /\ HandlerReturn(r).result # None)
          => /\ r.scripts[1][1].op = "rpc_error"
             /\ r.scripts[1][1].payload \in {HandlerReturn(r).error, Null}
             /\ r.scripts[1][1].payload # HandlerReturn(r).result

\* A response with the error "err" and the result "res" has been answered
\* through the error routine with "err", and a response with only a result
\* through the result routine.
C24_Witness ==
  /\ Len(hist) = 2
  /\ hist[1] \in RpcReplies
  /\ HandlerReturn(hist[1]).error = JStr("err")
  /\ HandlerReturn(hist[1]).result = JStr("res")
  /\ hist[1].scripts =
       << << [op |-> "rpc_error", id |-> HandlerReturn(hist[1]).id,
              payload |-> JStr("err")] >> >>
  /\ hist[2] \in RpcReplies
  /\ HandlerReturn(hist[2]).error = None
  /\ hist[2].scripts[1][1].op = "rpc_result"

(* ------------------------------- C25 ---------------------------------- *)

\* The calls to registered callbacks whose envelope has a numeric id.
NumericIdCalls == { r \in CallbackCalls : IsNumber(EnvelopeId(r)) }

\* Two integer ids are congruent modulo 2^32: their low words are equal.
Congruent(a, b) == a.t = "int" /\ b.t = "int" /\ a.lo = b.lo

\* C25: on the registered-callback route an integer id is reduced to its
\* low 32 bits and a numeric id that is no i64 integer becomes 0; so two
\* calls whose different numeric ids are congruent modulo 2^32, or are both
\* no integers, are answered on the same slot.
C25_IdWrapsToLowWord ==
  /\ \A r \in NumericIdCalls :
       /\ EnvelopeId(r).t = "int" => r.calls[1].id = EnvelopeId(r).lo
       /\ EnvelopeId(r).t # "int" => r.calls[1].id = 0
       /\ Slots(r.scripts[1]) = {r.calls[1].id}
  /\ \A p \in NumericIdCalls \X NumericIdCalls :
       (/\ EnvelopeId(p[1]) # EnvelopeId(p[2])
        /\ \/ Congruent(EnvelopeId(p[1]), EnvelopeId(p[2]))
           \/ (EnvelopeId(p[1]).t # "int" /\ EnvelopeId(p[2]).t # "int"))
         => Slots(p[1].scripts[1]) = Slots(p[2].scripts[1])

\* The id 2^32 + 7 has been answered on slot 7, and after it the id 7 on
\* slot 7 as well.
C25_Witness ==
  /\ Len(hist) = 2
  /\ hist[1] \in NumericIdCalls
  /\ EnvelopeId(hist[1]) = JInt(1, 7)
  /\ Slots(hist[1].scripts[1]) = {7}
  /\ hist[2] \in NumericIdCalls
  /\ EnvelopeId(hist[2]) = JInt(0, 7)
  /\ Slots(hist[2].scripts[1]) = {7}

(* ------------------------------- C26 ---------------------------------- *)

\* The add_window requests the loop has processed.
AddWindowRequests == { addWindow[i] : i \in DOMAIN addWindow }

\* C26: when the window could not be created no id is sent and add_window
\* returns an error; when it was created its id is sent, whether or not
\* the webview is built afterwards, and add_window returns that id; a
\* webview that could not be built is not in the table under the returned
\* id, and one that was inserted has the returned id as its key.
C26_IdSentBeforeWebview ==
  \A a \in AddWindowRequests :
    /\ a.outcome = "window_failed"
         => /\ ~a.reply.sent
            /\ a.result # None => ~a.result.ok
    /\ a.outcome # "window_failed"
         => /\ a.reply.sent
            /\ a.result # None => a.result = [ok |-> TRUE, id |-> a.reply.id]
    /\ a.outcome = "webview_failed"
         => \A e \in webviews : e.key # a.reply.id
    /\ a.outcome = "inserted" => a.key = a.reply.id

\* Three requests have returned: an error for the window that was not
\* created, an id that is no key of the table for the webview that was not
\* built, and the key of the webview that was inserted.
C26_Witness ==
  /\ \E a \in AddWindowRequests :
       a.outcome = "window_failed" /\ a.result = [ok |-> FALSE]
  /\ \E a \in AddWindowRequests :
       /\ a.outcome = "webview_failed"
       /\ a.result # None
       /\ a.result.ok
       /\ \A e \in webviews : e.key # a.result.id
  /\ \E a \in AddWindowRequests :
       /\ a.outcome = "inserted"
       /\ a.result # None
       /\ a.result.ok
       /\ \E e \in webviews : e.key = a.result.id

(* ------------------------------- C27 ---------------------------------- *)

\* The number of dispatches that have ended.
DispatchesEnded == IF cur # None /\ pc["ui"] # "drop" THEN received - 1 ELSE received

\* The position of the first event e of record r (0: none).
FirstEvent(r, e) ==
  IF HasEvent(r, e)
  THEN CHOOSE k \in DOMAIN r.events :
         r.events[k] = e /\ \A j \in 1 .. k - 1 : r.events[j] # e
  ELSE 0

\* C27: the messages are dispatched one at a time: the dispatches that have
\* ended are exactly those of the messages received before the one in
\* progress, in the order of receipt; a reply is injected only after the
\* handler has returned, and before the next dispatch begins.
C27_OneDispatchAtATime ==
  /\ cur # None => cur.nth = received
  /\ Len(hist) = (IF DispatchesEnded < 2 THEN DispatchesEnded ELSE 2)
  /\ \A i \in DOMAIN hist : hist[i].nth = DispatchesEnded - Len(hist) + i
  /\ \A r \in Records :
       r.scripts # <<>>
         => /\ Len(r.scripts) = 1
            /\ FirstEvent(r, "invoke") > 0
            /\ FirstEvent(r, "invoke") < FirstEvent(r, "inject")
            /\ r.outcome = "returned"

\* The first message has been answered with a reject and the second,
\* received after that, with a resolve on another slot.
C27_Witness ==
  /\ Len(hist) = 2
  /\ hist[1].nth = 1
  /\ hist[2].nth = 2
  /\ hist[1].scripts # <<>>
  /\ hist[2].scripts # <<>>
  /\ ~hist[1].calls[1].status.ok
  /\ hist[2].calls[1].status.ok
  /\ hist[1].id # hist[2].id
  /\ pc["ui"] = "idle"

====
